---- MODULE Spec2Model ----
(***************************************************************************)
(* A model of proj2_nps.py: the national-site scraper whose every network  *)
(* access goes through one dictionary, CACHE_DICT, that is rewritten to    *)
(* project2_cache.json after every write.                                  *)
(*                                                                         *)
(* Python values are encoded with one record type per kind so that any two *)
(* of them can be compared:                                                *)
(*   a str   s            is  [shape |-> "str",  text |-> s, items |-> <<>>]*)
(*   a dict  {k1: v1, ..} is  [shape |-> "dict", text |-> "", items |->    *)
(*                             << [k |-> k1, v |-> v1], ... >>]            *)
(*   a dict key is an int or a str: [int |-> TRUE, i |-> 1, s |-> ""] or   *)
(*                                  [int |-> FALSE, i |-> 0, s |-> "1"].   *)
(* Page markup and JSON bodies are strings built by concatenation; the     *)
(* parsers recover the structure of the strings the servers can send.      *)
(***************************************************************************)
EXTENDS Integers, Sequences, FiniteSets, TLC

VARIABLES
    CACHE_DICT,   \* the module-level dictionary: key (a str) -> Python value
    file,         \* project2_cache.json: [present, readable, valid, text], text a
                  \* JSON document
    call,         \* the call that ran last: [op, arg, exc, value, sites]
    trace,        \* what that call did, in order: GET / PUT / SAVE events
    main,         \* the command loop of __main__: where it stands and its locals
    peer          \* the CACHE_DICT of a second process that shares the file

vars == <<CACHE_DICT, file, call, trace, main, peer>>

(***************************************************************************)
(* Bounds of the model.                                                    *)
(***************************************************************************)
\* the most headings a region-listing page carries
MaxParks == 2
\* the most entries of a searchResults array (the request asks for at most 10)
MaxResults == 2

(***************************************************************************)
(* Python values.                                                          *)
(***************************************************************************)
PyStr(s) == [shape |-> "str", text |-> s, items |-> <<>>]
PyDict(items) == [shape |-> "dict", text |-> "", items |-> items]
IntKey(i) == [int |-> TRUE, i |-> i, s |-> ""]
StrKey(s) == [int |-> FALSE, i |-> 0, s |-> s]
EmptyDict == PyDict(<<>>)

\* str(i) for the ranks the model reaches
Digits == <<"1", "2", "3", "4", "5", "6", "7", "8", "9", "10", "11", "12">>
PyStrOfInt(i) == IF i = 0 THEN "0" ELSE Digits[i]

\* d[k] = v on the item sequence of a dict: replace in place, else append
DictSet(items, k, v) ==
    IF \E j \in 1..Len(items) : items[j].k = k
    THEN [j \in 1..Len(items) |->
            IF items[j].k = k THEN [k |-> k, v |-> v] ELSE items[j]]
    ELSE Append(items, [k |-> k, v |-> v])

\* str.lower() and str.strip() on the texts the pages carry
Lower(s) ==
    CASE s = "Michigan" -> "michigan"
      [] s = "Ohio" -> "ohio"
      [] s = "Texas" -> "texas"
      [] s = "Exit" -> "exit"
      [] OTHER -> s

Strip(s) ==
    CASE s = " 49931 " -> "49931"
      [] s = " (906) 482-0984 " -> "(906) 482-0984"
      [] s = " Michigan " -> "Michigan"
      [] s = " Ohio " -> "Ohio"
      [] OTHER -> s

(***************************************************************************)
(* The web: what the servers can answer.                                   *)
(***************************************************************************)
BASE_URL == "https://www.nps.gov"
DirectoryUrl == "https://www.nps.gov/index.htm"

\* the regions of the directory page: the text of the <li> and its anchor's href
Regions == << [text |-> " Michigan ", href |-> "/state/mi/index.htm"],
              [text |-> " Ohio ", href |-> "/state/oh/index.htm"] >>

\* the detail paths a listing page links to, in page order
ParkPaths == << "/isro/index.htm", "/slbe/index.htm", "/kewe/index.htm",
                "/rira/index.htm" >>

RECURSIVE Concat(_, _)
\* the concatenation of f[1] .. f[n]
Concat(f, n) == IF n = 0 THEN "" ELSE Concat(f, n - 1) \o f[n]

ErrorPage == "<html><h1>Server Error</h1></html>"

DirectoryPage(m) ==
    "<ul id='HERO'>"
    \o Concat([j \in 1..m |-> "<li><a href='" \o Regions[j].href \o "'>"
                               \o Regions[j].text \o "</a></li>"], m)
    \o "</ul>"

ListingPage(n) ==
    "<div class='col-md-9 col-sm-12 col-xs-12 stateCol'><div></div><div>"
    \o Concat([j \in 1..n |-> "<h3><a href='" \o ParkPaths[j] \o "'></a></h3>"], n)
    \o "</div></div>"

\* the pages, built once
DirectoryPages == [m \in 0..Len(Regions) |-> DirectoryPage(m)]
ListingPages == [n \in 0..MaxParks |-> ListingPage(n)]

\* a listing page whose content column has a single child container
ListingPageOneDiv ==
    "<div class='col-md-9 col-sm-12 col-xs-12 stateCol'><div></div></div>"

\* a detail page; each of the six elements is present (<<text>>) or absent (<<>>)
Span(attr, f) == IF f = <<>> THEN "" ELSE "<span " \o attr \o ">" \o f[1] \o "</span>"

SitePage(f) ==
    "<div class='Hero'>"
    \o Span("class='Hero-designation'", f.type)
    \o (IF f.name = <<>> THEN "" ELSE "<a class='Hero-title'>" \o f.name[1] \o "</a>")
    \o Span("class='tel'", f.tel)
    \o Span("itemprop='postalCode'", f.zip)
    \o Span("itemprop='addressRegion'", f.state)
    \o Span("itemprop='addressLocality'", f.city)
    \o "</div>"

Opt(s) == {<<>>, <<s>>}

\* every combination of present and absent elements
SiteMarkups ==
    [type : Opt("National Park"), name : Opt("Isle Royale"),
     tel : Opt(" (906) 482-0984 "), zip : Opt(" 49931 "),
     state : Opt("MI"), city : Opt("Houghton")]

SitePages == [f \in SiteMarkups |-> SitePage(f)]

NoElements ==
    [type |-> <<>>, name |-> <<>>, tel |-> <<>>, zip |-> <<>>, state |-> <<>>, city |-> <<>>]

FullSite ==
    [type |-> <<"National Park">>, name |-> <<"Isle Royale">>,
     tel |-> <<" (906) 482-0984 ">>, zip |-> <<" 49931 ">>,
     state |-> <<"MI">>, city |-> <<"Houghton">>]

\* a page without postal code and without city
NoZipSite == [FullSite EXCEPT !.zip = <<>>, !.city = <<>>]

\* the places the proximity API knows, in response order
Places ==
    << [name |-> "Keweenaw Brewing", group_sic_code_name |-> "Restaurants",
        address |-> "408 Shelden Ave", city |-> "Houghton"],
       [name |-> "Carnegie Museum", group_sic_code_name |-> "Museums",
        address |-> "", city |-> "Houghton"],
       [name |-> "Portage Lake", group_sic_code_name |-> "Parks",
        address |-> "105 Huron St", city |-> ""],
       [name |-> "Quincy Mine", group_sic_code_name |-> "Museums",
        address |-> "", city |-> ""] >>

PlaceJson(p) ==
    "{\"fields\": {\"name\": \"" \o p.name \o "\", \"group_sic_code_name\": \""
    \o p.group_sic_code_name \o "\", \"address\": \"" \o p.address
    \o "\", \"city\": \"" \o p.city \o "\"}}"

\* a response body whose results are the places numbered by results, in order
ApiBodyOf(results) ==
    "{\"searchResults\": ["
    \o Concat([j \in 1..Len(results) |->
                  (IF j = 1 THEN "" ELSE ", ") \o PlaceJson(Places[results[j]])],
              Len(results))
    \o "]}"

\* a response body with the first n places
ApiBody(n) == ApiBodyOf([j \in 1..n |-> j])

\* the result lists a response can carry: up to MaxResults places in any order
ResultLists == UNION {[1..n -> 1..Len(Places)] : n \in 0..MaxResults}

ApiBodies == [n \in 0..MaxResults |-> ApiBody(n)]

\* a response body without a searchResults member
ApiBodyNoResults == "{\"info\": {\"statusCode\": 0}, \"resultsCount\": 0}"

\* the request get_nearby_places sends for a postal code
API_KEY == "KEY"
ApiUrl(zipcode) ==
    "http://www.mapquestapi.com/search/v2/radius?key=" \o API_KEY \o "&origin="
    \o zipcode \o "&radius=10&maxMatches=10&ambiguities=ignore&outFormat=json"

\* a requests.get either raises (down) or yields a response with a status and a text
Down == [down |-> TRUE, status |-> 0, text |-> ""]
Response(status, text) == [down |-> FALSE, status |-> status, text |-> text]

StateUrls == {BASE_URL \o Regions[1].href}
DetailUrls == {BASE_URL \o ParkPaths[j] : j \in 1..MaxParks}

\* the page the server holds for a detail URL: the first park's page has every
\* element, the other parks' pages lack postal code and city
DetailPage(url) ==
    IF url = BASE_URL \o ParkPaths[1] THEN SitePages[FullSite] ELSE SitePages[NoZipSite]

\* what the server can answer to a GET of url: no answer, an error status with
\* an error page, or a page
Responses(url) ==
    {Down, Response(500, ErrorPage)} \cup
    (IF url = DirectoryUrl
     THEN {Response(200, DirectoryPages[m]) : m \in {0, Len(Regions)}}
     ELSE IF url \in StateUrls
     THEN {Response(200, ListingPages[n]) : n \in 0..MaxParks}
     ELSE IF url \in DetailUrls
     THEN {Response(200, DetailPage(url))}
     ELSE {Response(200, ApiBodies[n]) : n \in 0..MaxResults}
            \cup {Response(200, ApiBodyNoResults)})

(***************************************************************************)
(* BeautifulSoup and json.loads on the texts above.                        *)
(***************************************************************************)
\* soup.find_all(id='HERO'): per element found, its <li> items in order, each
\* with its text and the href of its anchor
FindAllHero(text) ==
    IF \E m \in 0..Len(Regions) : text = DirectoryPages[m]
    THEN LET m == CHOOSE m \in 0..Len(Regions) : text = DirectoryPages[m]
         IN  << [j \in 1..m |-> [text |-> Regions[j].text, href |-> Regions[j].href]] >>
    ELSE <<>>

\* soup.find('div', class_='... stateCol'), then find_all('div', recursive=False):
\* per child container, the hrefs of its <h3> anchors in order
FindStateCol(text) ==
    IF \E n \in 0..MaxParks : text = ListingPages[n]
    THEN LET n == CHOOSE n \in 0..MaxParks : text = ListingPages[n]
         IN  [found |-> TRUE, divs |-> << <<>>, [j \in 1..n |-> ParkPaths[j]] >>]
    ELSE IF text = ListingPageOneDiv
    THEN [found |-> TRUE, divs |-> << <<>> >>]
    ELSE [found |-> FALSE, divs |-> <<>>]

\* the six soup.find(...) of a detail page
SiteElements ==
    [text \in {SitePages[f] : f \in SiteMarkups} |->
        CHOOSE f \in SiteMarkups : text = SitePages[f]]

FindSiteElements(text) ==
    IF text \in DOMAIN SiteElements THEN SiteElements[text] ELSE NoElements

\* the searchResults array of every body that has one
SearchResults ==
    [text \in {ApiBodyOf(r) : r \in ResultLists} |->
        LET r == CHOOSE r \in ResultLists : ApiBodyOf(r) = text
        IN  [j \in 1..Len(r) |-> Places[r[j]]]]

\* json.loads of an API body: ValueError unless the text is JSON
JsonLoadsApi(text) ==
    IF text \in DOMAIN SearchResults
    THEN [valid |-> TRUE, hasResults |-> TRUE, searchResults |-> SearchResults[text]]
    ELSE IF text = ApiBodyNoResults
    THEN [valid |-> TRUE, hasResults |-> FALSE, searchResults |-> <<>>]
    ELSE [valid |-> FALSE, hasResults |-> FALSE, searchResults |-> <<>>]

(***************************************************************************)
(* The cache file: json.dumps and json.loads of the whole dictionary.      *)
(* A JSON document maps each key to a JSON string or to a JSON object      *)
(* whose member names are strings.                                         *)
(***************************************************************************)
JsonString(s) == [j |-> "string", s |-> s, members |-> <<>>]
JsonObject(members) == [j |-> "object", s |-> "", members |-> members]
EmptyMap == [k \in {} |-> JsonString("")]
NoFile == [present |-> FALSE, readable |-> FALSE, valid |-> FALSE, text |-> EmptyMap]

\* json.dumps writes an int key as its decimal string
JsonKey(k) == IF k.int THEN PyStrOfInt(k.i) ELSE k.s

\* a dict value written as the text of str(value)
JsonDumpsValueAsText(v) ==
    JsonString(IF v.shape = "str" THEN v.text ELSE "{...}")

JsonDumpsValue(v) ==
    IF v.shape = "str"
    THEN JsonString(v.text)
    ELSE JsonObject([j \in 1..Len(v.items) |->
                        [name |-> JsonKey(v.items[j].k), value |-> v.items[j].v]])

json_dumps(cache_dict) == [k \in DOMAIN cache_dict |-> JsonDumpsValue(cache_dict[k])]

RECURSIVE JsonLoadsMembers(_, _)
\* the dict of the first n members: every name a str key, a repeated name keeps
\* its first place and takes the last value
JsonLoadsMembers(members, n) ==
    IF n = 0 THEN <<>>
    ELSE DictSet(JsonLoadsMembers(members, n - 1),
                 StrKey(members[n].name), members[n].value)

JsonLoadsValue(j) ==
    IF j.j = "string"
    THEN PyStr(j.s)
    ELSE PyDict(JsonLoadsMembers(j.members, Len(j.members)))

json_loads(text) == [k \in DOMAIN text |-> JsonLoadsValue(text[k])]

\* open_cache with the file's text taken whether json.loads accepts it or not
OpenCacheAnyText(f) == IF f.present THEN json_loads(f.text) ELSE EmptyMap

\* open_cache: the file's dictionary, or {} when open, read or json.loads raises
open_cache(f) ==
    IF f.present /\ f.readable /\ f.valid THEN json_loads(f.text) ELSE EmptyMap

(***************************************************************************)
(* A running call: the dictionary, the file, the events so far, the        *)
(* exception raised ("" for none) and the value returned.                  *)
(***************************************************************************)
PyNone == [shape |-> "None", text |-> "", items |-> <<>>]
\* a GET event carries the answer: its status (0 when the request raised) and text
Event(e, key) == [e |-> e, key |-> key, status |-> 0, text |-> ""]

Enter ==
    [cache |-> CACHE_DICT, file |-> file, trace |-> <<>>, exc |-> "",
     value |-> PyNone, sites |-> <<>>]

Raise(s, e) == [s EXCEPT !.exc = e]

\* the membership test written against CACHE_DICT.values()
InCacheValues(cache, key) == \E k \in DOMAIN cache : cache[k] = PyStr(key)

\* the membership test written as a truth test of CACHE_DICT.get(key)
InCacheTruthy(cache, key) == key \in DOMAIN cache /\ cache[key] # PyDict(<<>>)

\* key in CACHE_DICT.keys()
InCache(cache, key) == key \in DOMAIN cache

\* response = requests.get(url), answered by answer; the caller raises
\* ConnectionError when answer.down
RequestsGet(s, url, answer) ==
    [s EXCEPT !.trace = Append(@, [e |-> "GET", key |-> url,
                                   status |-> answer.status, text |-> answer.text])]

\* the dictionary rebound to the new entry alone
CacheStoreRebind(s, key, value) ==
    [s EXCEPT !.cache = [x \in {key} |-> value],
              !.trace = Append(@, Event("PUT", key))]

\* CACHE_DICT[key] = value
CacheStore(s, key, value) ==
    [s EXCEPT !.cache = [x \in DOMAIN s.cache \cup {key} |->
                            IF x = key THEN value ELSE s.cache[x]],
              !.trace = Append(@, Event("PUT", key))]

\* save_cache whose write never reaches the file
SaveCacheUnwritten(s) == [s EXCEPT !.trace = Append(@, Event("SAVE", ""))]

\* save_cache that keeps the entries the file holds and the dictionary lacks
SaveCacheMerge(s) ==
    [s EXCEPT !.file = [present |-> TRUE, readable |-> TRUE, valid |-> TRUE,
                        text |-> [k \in DOMAIN s.file.text \cup DOMAIN s.cache |->
                                    IF k \in DOMAIN s.cache
                                    THEN JsonDumpsValue(s.cache[k])
                                    ELSE s.file.text[k]]],
              !.trace = Append(@, Event("SAVE", ""))]

\* save_cache(CACHE_DICT)
save_cache(s) ==
    [s EXCEPT !.file = [present |-> TRUE, readable |-> TRUE, valid |-> TRUE,
                        text |-> json_dumps(s.cache)],
              !.trace = Append(@, Event("SAVE", ""))]

(***************************************************************************)
(* The functions of proj2_nps.py.  s is the running call; web gives, for   *)
(* each URL the call may request, the answer the server will give.         *)
(***************************************************************************)
NationalSite(category, name, address, zipcode, phone) ==
    [category |-> category, name |-> name, address |-> address,
     zipcode |-> zipcode, phone |-> phone]

\* NationalSite.info()
info(site) ==
    site.name \o " " \o "(" \o site.category \o "): " \o site.address \o " " \o site.zipcode

\* (soup.find(...).text) if (soup.find(...)) else default
TextOr(element, default) == IF element = <<>> THEN default ELSE element[1]

\* the record built with the defaults of NationalSite.__init__ as placeholders
SiteOfTextDefaults(text) ==
    LET soup == FindSiteElements(text)
        park_city == TextOr(soup.city, "No City")
        park_state == TextOr(soup.state, "No State")
    IN  NationalSite(TextOr(soup.type, "No Category"), TextOr(soup.name, "No Name"),
                     park_city \o ", " \o park_state,
                     Strip(TextOr(soup.zip, "No Zipcode")),
                     Strip(TextOr(soup.tel, "No Phone Number")))

\* the record get_site_instance builds from a page text
SiteOfText(text) ==
    LET soup == FindSiteElements(text)
        park_type == TextOr(soup.type, "No Type")
        park_name == TextOr(soup.name, "No Name")
        park_number == Strip(TextOr(soup.tel, "No Number"))
        park_zip == Strip(TextOr(soup.zip, "No Zip"))
        park_state == TextOr(soup.state, "No State")
        park_city == TextOr(soup.city, "No City")
        park_address == park_city \o ", " \o park_state
    IN  NationalSite(park_type, park_name, park_address, park_zip, park_number)

\* the page stored on a miss and the file left for a later save
FetchPageNoSave(s, url, web) ==
    IF InCache(s.cache, url)
    THEN s
    ELSE IF web[url].down
    THEN Raise(RequestsGet(s, url, web[url]), "ConnectionError")
    ELSE CacheStore(RequestsGet(s, url, web[url]), url, PyStr(web[url].text))

\* the cache check shared by get_site_instance and get_sites_for_state: on a
\* miss, GET the page and store and save its text whatever the status
FetchPage(s, url, web) ==
    IF InCache(s.cache, url)
    THEN s
    ELSE IF web[url].down
    THEN Raise(RequestsGet(s, url, web[url]), "ConnectionError")
    ELSE save_cache(CacheStore(RequestsGet(s, url, web[url]), url, PyStr(web[url].text)))

get_site_instance(s, site_url, web) ==
    LET fetched == FetchPage(s, site_url, web)
    IN  IF fetched.exc # ""
        THEN fetched
        ELSE [fetched EXCEPT !.sites = << SiteOfText(fetched.cache[site_url].text) >>]

RECURSIVE ParkLoopInsertFirst(_, _, _, _)
\* the loop with park_list.insert(0, park_instance)
ParkLoopInsertFirst(s, park_url_items, j, web) ==
    IF j > Len(park_url_items)
    THEN s
    ELSE LET r == get_site_instance(s, BASE_URL \o park_url_items[j], web)
         IN  IF r.exc # ""
             THEN [r EXCEPT !.sites = <<>>]
             ELSE ParkLoopInsertFirst([r EXCEPT !.sites = r.sites \o s.sites],
                                      park_url_items, j + 1, web)

RECURSIVE ParkLoop(_, _, _, _)
\* the for loop of get_sites_for_state from item j on; s.sites is park_list
ParkLoop(s, park_url_items, j, web) ==
    IF j > Len(park_url_items)
    THEN s
    ELSE LET park_details_url == BASE_URL \o park_url_items[j]
             r == get_site_instance(s, park_details_url, web)
         IN  IF r.exc # ""
             THEN [r EXCEPT !.sites = <<>>]
             ELSE ParkLoop([r EXCEPT !.sites = s.sites \o r.sites],
                           park_url_items, j + 1, web)

\* get_sites_for_state that keeps what it fetched only when it returns
GetSitesAllOrNothing(s, state_url, web) ==
    LET fetched == FetchPage(s, state_url, web)
        col == FindStateCol(fetched.cache[state_url].text)
        r == IF fetched.exc # ""
             THEN fetched
             ELSE IF ~col.found
             THEN Raise(fetched, "AttributeError")
             ELSE IF Len(col.divs) < 2
             THEN Raise(fetched, "IndexError")
             ELSE ParkLoop(fetched, col.divs[2], 1, web)
    IN  IF r.exc # "" THEN [r EXCEPT !.cache = s.cache, !.file = s.file] ELSE r

get_sites_for_state(s, state_url, web) ==
    LET fetched == FetchPage(s, state_url, web)
    IN  IF fetched.exc # ""
        THEN fetched
        ELSE LET col == FindStateCol(fetched.cache[state_url].text)
             IN  IF ~col.found
                 THEN Raise(fetched, "AttributeError")
                 ELSE IF Len(col.divs) < 2
                 THEN Raise(fetched, "IndexError")
                 ELSE ParkLoop(fetched, col.divs[2], 1, web)

\* the description with the street and the city as the response spells them
PlaceLineAsSent(i) ==
    i.name \o " " \o "(" \o i.group_sic_code_name \o "): " \o i.address \o ", " \o i.city

\* the description of one search result
PlaceLine(i) ==
    LET place_street == IF i.address = "" THEN "No Address" ELSE i.address
        place_city == IF i.city = "" THEN "No City" ELSE i.city
    IN  i.name \o " " \o "(" \o i.group_sic_code_name \o "): "
        \o place_street \o ", " \o place_city

RECURSIVE FieldDictFromZero(_, _)
\* field_dict with counter starting at 0
FieldDictFromZero(fields_info, n) ==
    IF n = 0 THEN <<>>
    ELSE DictSet(FieldDictFromZero(fields_info, n - 1), IntKey(n - 1),
                 PlaceLine(fields_info[n]))

RECURSIVE FieldDict(_, _)
\* field_dict after the first n results: field_dict[counter] = ..., counter from 1
FieldDict(fields_info, n) ==
    IF n = 0 THEN <<>>
    ELSE DictSet(FieldDict(fields_info, n - 1), IntKey(n), PlaceLine(fields_info[n]))

get_nearby_places(s, site_object, web) ==
    LET zipcode == site_object.zipcode
        url == ApiUrl(zipcode)
        stored(t, field_dict) ==
            LET w == save_cache(CacheStore(t, zipcode, PyDict(field_dict)))
            IN  [w EXCEPT !.value = w.cache[zipcode]]
    IN  IF InCache(s.cache, zipcode)
        THEN [s EXCEPT !.value = s.cache[zipcode]]
        ELSE IF zipcode = "No Zip"
        THEN stored(s, <<>>)
        ELSE IF web[url].down
        THEN Raise(RequestsGet(s, url, web[url]), "ConnectionError")
        ELSE LET t == RequestsGet(s, url, web[url])
                 json_dict == JsonLoadsApi(web[url].text)
             IN  IF ~json_dict.valid
                 THEN Raise(t, "ValueError")
                 ELSE IF ~json_dict.hasResults
                 THEN stored(t, <<>>)
                 ELSE stored(t, FieldDict(json_dict.searchResults,
                                          Len(json_dict.searchResults)))

RECURSIVE StateDict(_, _)
\* dict after the first n items: dict[state] = "https://www.nps.gov" + state_link
StateDict(state_items, n) ==
    IF n = 0 THEN <<>>
    ELSE DictSet(StateDict(state_items, n - 1),
                 StrKey(Strip(state_items[n].text)), BASE_URL \o state_items[n].href)

\* the items kept as the page spells them
KeysAsSpelled(items, n) == SubSeq(items, 1, n)

RECURSIVE LowerKeys(_, _)
\* {i.lower(): j for i, j in dict.items()} over the first n items
LowerKeys(items, n) ==
    IF n = 0 THEN <<>>
    ELSE DictSet(LowerKeys(items, n - 1), StrKey(Lower(items[n].k.s)), items[n].v)

\* first and second are the answers to the two requests.get(url) of the miss
build_state_url_dict(s, first, second) ==
    LET url == DirectoryUrl
    IN  IF InCache(s.cache, url)
        THEN [s EXCEPT !.value = s.cache[url]]
        ELSE IF first.down
        THEN Raise(RequestsGet(s, url, first), "ConnectionError")
        ELSE LET t == RequestsGet(s, url, first)
                 state_elements == FindAllHero(first.text)
             IN  IF Len(state_elements) = 0
                 THEN Raise(t, "IndexError")
                 ELSE LET state_items == state_elements[1]
                          dict == StateDict(state_items, Len(state_items))
                          lowered == LowerKeys(dict, Len(dict))
                          t2 == RequestsGet(t, url, second)
                      IN  IF second.down
                          THEN Raise(t2, "ConnectionError")
                          ELSE LET w == save_cache(CacheStore(t2, url, PyDict(lowered)))
                               IN  [w EXCEPT !.value = w.cache[url]]

(***************************************************************************)
(* The actions: one call of a function, or the start of a new process.     *)
(***************************************************************************)
\* the command loop before the program is launched
MainOff ==
    [pc |-> "off", dict |-> PyNone, park_list |-> <<>>, counter |-> 0,
     num_input |-> StrKey(""), typed |-> "", picked |-> 0, said |-> ""]

Init ==
    /\ CACHE_DICT = EmptyMap
    /\ file = NoFile
    /\ call = [op |-> "", arg |-> "", exc |-> "", value |-> PyNone, sites |-> <<>>]
    /\ trace = <<>>
    /\ main = MainOff
    /\ peer = EmptyMap

\* the effects of a call on the dictionary, the file and the record of the call
Effects(op, arg, s) ==
    /\ CACHE_DICT' = s.cache
    /\ file' = s.file
    /\ trace' = s.trace
    /\ call' = [op |-> op, arg |-> arg, exc |-> s.exc, value |-> s.value,
                sites |-> s.sites]

\* the call returns or raises: its effects become the state
Return(op, arg, s) ==
    /\ Effects(op, arg, s)
    /\ UNCHANGED <<main, peer>>

\* a new run of the program: CACHE_DICT = open_cache()
Start ==
    /\ CACHE_DICT' = open_cache(file)
    /\ call' = [op |-> "open_cache", arg |-> "", exc |-> "", value |-> PyNone,
                sites |-> <<>>]
    /\ trace' = <<>>
    /\ UNCHANGED <<file, main, peer>>

\* the answers of the detail pages' server to the URLs of urls (no answer to
\* the other detail URLs)
DetailWebs(urls) ==
    {[u \in DetailUrls |-> CASE u \notin urls \/ pick[u] = "down" -> Down
                            [] pick[u] = "error" -> Response(500, ErrorPage)
                            [] OTHER -> Response(200, DetailPage(u))] :
        pick \in [urls -> {"down", "error", "page"}]}

\* a call requests a URL only when its key is not in the dictionary, so only
\* then does the answer matter
Missing(urls) == urls \ DOMAIN CACHE_DICT
Answers(key, url) == IF key \in DOMAIN CACHE_DICT THEN {Down} ELSE Responses(url)

\* the records a caller can hold
SiteObjects ==
    {SiteOfText(SitePages[FullSite]), SiteOfText(SitePages[NoZipSite]), SiteOfText(ErrorPage)}

BuildStateUrlDict ==
    \E first \in Answers(DirectoryUrl, DirectoryUrl),
       second \in Answers(DirectoryUrl, DirectoryUrl) :
        Return("build_state_url_dict", DirectoryUrl,
               build_state_url_dict(Enter, first, second))

GetSiteInstance ==
    \E site_url \in DetailUrls :
      \E web \in DetailWebs(Missing({site_url})) :
        Return("get_site_instance", site_url, get_site_instance(Enter, site_url, web))

GetSitesForState ==
    \E state_url \in StateUrls, web \in DetailWebs(Missing(DetailUrls)) :
        \E listing \in Answers(state_url, state_url) :
            Return("get_sites_for_state", state_url,
                   get_sites_for_state(Enter, state_url, (state_url :> listing) @@ web))

GetNearbyPlaces ==
    \E site_object \in SiteObjects :
        \E answer \in Answers(site_object.zipcode, ApiUrl(site_object.zipcode)) :
            Return("get_nearby_places", site_object.zipcode,
                   get_nearby_places(Enter, site_object,
                                     (ApiUrl(site_object.zipcode) :> answer)))

Next ==
    \/ Start
    \/ GetSiteInstance
    \/ GetSitesForState
    \/ GetNearbyPlaces
    \/ BuildStateUrlDict

Spec == Init /\ [][Next]_vars

(***************************************************************************)
(* What the claims speak of.                                               *)
(***************************************************************************)
CacheOps ==
    {"build_state_url_dict", "get_sites_for_state", "get_site_instance",
     "get_nearby_places"}

\* the URL a call requests for its key
KeyUrl(c) == IF c.op = "get_nearby_places" THEN ApiUrl(c.arg) ELSE c.arg

\* the positions of the events e of key in a trace
EventsOf(tr, e, key) == {j \in 1..Len(tr) : tr[j].e = e /\ tr[j].key = key}
Gets(tr, url) == Cardinality(EventsOf(tr, "GET", url))
Puts(tr, key) == Cardinality(EventsOf(tr, "PUT", key))

\* the step is a call of a cache-mediated operation whose key was absent / present
MissStep == call'.op \in CacheOps /\ call'.arg \notin DOMAIN CACHE_DICT
HitStep == call'.op \in CacheOps /\ call'.arg \in DOMAIN CACHE_DICT

\* C1 (as claimed): a call whose key was absent (a real postal code for
\* get_nearby_places) requests the key's URL exactly once, and when it returns
\* the dictionary maps the key to the value obtained: the text of the answer for
\* a page, the value returned for the directory and the nearby places.
C1_FetchOnceOnMiss ==
    [][ (MissStep /\ call'.arg # "No Zip" /\ call'.exc = "") =>
            /\ Gets(trace', KeyUrl(call')) = 1
            /\ call'.arg \in DOMAIN CACHE_DICT'
            /\ IF call'.op \in {"get_sites_for_state", "get_site_instance"}
               THEN \E j \in EventsOf(trace', "GET", call'.arg) :
                        CACHE_DICT'[call'.arg] = PyStr(trace'[j].text)
               ELSE CACHE_DICT'[call'.arg] = call'.value ]_vars

\* the number of headings of a stored listing page
Headings(text) == CHOOSE n \in 0..MaxParks : text = ListingPages[n]

\* C2: a call whose key is in the dictionary requests nothing for that key,
\* leaves the entry as it is and answers from it: the stored value itself for
\* the directory and the nearby places, the record of the stored page for a
\* site, one record per heading of the stored page for a listing.
C2_HitNoRequest ==
    [][ HitStep =>
            /\ Gets(trace', KeyUrl(call')) = 0
            /\ Puts(trace', call'.arg) = 0
            /\ call'.arg \in DOMAIN CACHE_DICT'
            /\ CACHE_DICT'[call'.arg] = CACHE_DICT[call'.arg]
            /\ call'.op \in {"build_state_url_dict", "get_nearby_places"} =>
                   call'.exc = "" /\ call'.value = CACHE_DICT[call'.arg]
            /\ call'.op = "get_site_instance" =>
                   /\ call'.exc = ""
                   /\ call'.sites = << SiteOfText(CACHE_DICT[call'.arg].text) >>
            /\ (call'.op = "get_sites_for_state" /\ call'.exc = "") =>
                   Len(call'.sites) = Headings(CACHE_DICT[call'.arg].text) ]_vars

\* C2: a call has answered from an entry that was already in the dictionary
C2_Witness ==
    /\ call.op = "get_nearby_places" /\ call.arg = "49931"
    /\ trace = <<>> /\ call.exc = ""
    /\ Len(call.value.items) = MaxResults

\* a GET of the trace that failed: the request raised, or the status is not 200
FailedGets(tr) == {j \in 1..Len(tr) : tr[j].e = "GET" /\ tr[j].status # 200}

\* the dictionary key a requested URL is stored under
KeyOfUrl(c, url) == IF c.op = "get_nearby_places" THEN c.arg ELSE url

\* C3 (as claimed): after a call one of whose requests failed, by a network
\* error or by a non-success status, the call has raised and the key of the
\* failed request is in neither the dictionary nor the file.
C3_NoWriteOnFailure ==
    \A j \in FailedGets(trace) :
        /\ call.exc # ""
        /\ KeyOfUrl(call, trace[j].key) \notin DOMAIN CACHE_DICT
        /\ KeyOfUrl(call, trace[j].key) \notin DOMAIN file.text

\* save_cache(CACHE_DICT) followed by open_cache()
RoundTrip(cache_dict) == open_cache(save_cache([Enter EXCEPT !.cache = cache_dict]).file)

\* C4 (as claimed): saving and loading the dictionary gives the dictionary back,
\* same keys, same key types, same values.
C4_RoundTripEqual == RoundTrip(CACHE_DICT) = CACHE_DICT

\* a dict as it comes back: the same values in the same order, an int key k as
\* the str of k
RanksAsStrings(v) ==
    PyDict([j \in 1..Len(v.items) |->
              [k |-> IF v.items[j].k.int
                     THEN [int |-> FALSE, i |-> 0, s |-> Digits[v.items[j].k.i]]
                     ELSE v.items[j].k,
               v |-> v.items[j].v]])

\* C4 (amended): saving and loading gives back the same keys; a page text comes
\* back equal; a mapping comes back with the same values in the same order and
\* every int rank k turned into the str of k; saving and loading what came back
\* changes nothing more.
C4_RoundTripRanksAsStrings ==
    LET loaded == RoundTrip(CACHE_DICT)
    IN  /\ DOMAIN loaded = DOMAIN CACHE_DICT
        /\ \A k \in DOMAIN CACHE_DICT :
              loaded[k] = IF CACHE_DICT[k].shape = "str"
                          THEN CACHE_DICT[k]
                          ELSE RanksAsStrings(CACHE_DICT[k])
        /\ RoundTrip(loaded) = loaded

\* C4: the dictionary holds a page text and a mapping with int ranks 1..MaxResults
C4_Witness ==
    /\ \E k \in DOMAIN CACHE_DICT : CACHE_DICT[k].shape = "str"
    /\ \E k \in DOMAIN CACHE_DICT :
          /\ Len(CACHE_DICT[k].items) = MaxResults
          /\ \A j \in 1..MaxResults : CACHE_DICT[k].items[j].k = IntKey(j)

\* C5: within one run (every step but the start of a new process) an entry of
\* the dictionary stays, with its value; a key is written only when it is
\* absent, and once in the call.
C5_EntriesOnlyGrow ==
    [][ call'.op \in CacheOps =>
            /\ \A k \in DOMAIN CACHE_DICT :
                  k \in DOMAIN CACHE_DICT' /\ CACHE_DICT'[k] = CACHE_DICT[k]
            /\ \A j \in 1..Len(trace') :
                  trace'[j].e = "PUT" =>
                      /\ trace'[j].key \notin DOMAIN CACHE_DICT
                      /\ Puts(trace', trace'[j].key) = 1 ]_vars

\* C5: a call has written a new key into a dictionary that held three entries
C5_Witness ==
    /\ Cardinality(DOMAIN CACHE_DICT) = 4
    /\ \E j \in 1..Len(trace) : trace[j].e = "PUT"

\* the stored text is a detail page without postal-code element
LacksZip(text) == ~ \E f \in SiteMarkups : f.zip # <<>> /\ text = SitePages[f]

\* C6: the record of a page without postal-code element has zipcode "No Zip";
\* get_nearby_places on "No Zip" requests nothing, returns the empty mapping and
\* leaves it under "No Zip" in the dictionary and the file; "No Zip" never maps
\* to anything else.
C6_NoZipShortCircuit ==
    /\ (call.op = "get_site_instance" /\ call.exc = ""
            /\ LacksZip(CACHE_DICT[call.arg].text)) =>
           call.sites[1].zipcode = "No Zip"
    /\ (call.op = "get_nearby_places" /\ call.arg = "No Zip") =>
           /\ call.exc = "" /\ call.value = EmptyDict
           /\ \A j \in 1..Len(trace) : trace[j].e # "GET"
           /\ "No Zip" \in DOMAIN CACHE_DICT
           /\ "No Zip" \in DOMAIN file.text
           /\ file.text["No Zip"] = JsonObject(<<>>)
    /\ "No Zip" \in DOMAIN CACHE_DICT => CACHE_DICT["No Zip"] = EmptyDict

\* C6: a later record without postal code has got the empty result from the
\* entry an earlier one left, while the dictionary holds other entries too
C6_Witness ==
    /\ call.op = "get_nearby_places" /\ call.arg = "No Zip"
    /\ trace = <<>> /\ call.value = EmptyDict
    /\ \E u \in DetailUrls :
          u \in DOMAIN CACHE_DICT /\ SiteOfText(CACHE_DICT[u].text).zipcode = "No Zip"

\* the answer has an empty searchResults array or no searchResults member
EmptyAnswers(tr) ==
    {j \in 1..Len(tr) :
        tr[j].e = "GET" /\ tr[j].text \in {ApiBodies[0], ApiBodyNoResults}}

\* C7: a get_nearby_places whose answer has no results returns the empty mapping
\* and stores it under the postal code; a get_nearby_places on a postal code
\* that maps to the empty mapping returns it and requests nothing.
C7_EmptyResultCached ==
    [][ call'.op = "get_nearby_places" =>
            /\ EmptyAnswers(trace') # {} =>
                   /\ call'.exc = "" /\ call'.value = EmptyDict
                   /\ call'.arg \in DOMAIN CACHE_DICT'
                   /\ CACHE_DICT'[call'.arg] = EmptyDict
            /\ (call'.arg \in DOMAIN CACHE_DICT /\ CACHE_DICT[call'.arg] = EmptyDict) =>
                   /\ call'.exc = "" /\ call'.value = EmptyDict
                   /\ trace' = <<>>
                   /\ CACHE_DICT'[call'.arg] = EmptyDict ]_vars

\* C7: a call for a real postal code has returned the stored empty mapping
C7_Witness ==
    /\ call.op = "get_nearby_places" /\ call.arg = "49931"
    /\ trace = <<>> /\ call.value = EmptyDict /\ call.exc = ""

\* C8: a get_sites_for_state that returns gives one record per heading of the
\* listing page, the k-th being the record of the stored page of the k-th
\* heading's URL, and it requested each detail URL once if the URL was not in
\* the dictionary and not at all if it was.
C8_OneRecordPerHeading ==
    [][ (call'.op = "get_sites_for_state" /\ call'.exc = "") =>
            LET n == Headings(CACHE_DICT'[call'.arg].text)
            IN  /\ Len(call'.sites) = n
                /\ \A k \in 1..n :
                      LET u == BASE_URL \o ParkPaths[k]
                      IN  /\ u \in DOMAIN CACHE_DICT'
                          /\ call'.sites[k] = SiteOfText(CACHE_DICT'[u].text)
                          /\ Gets(trace', u) = IF u \in DOMAIN CACHE_DICT THEN 0 ELSE 1 ]_vars

\* C8: a listing of MaxParks headings has been answered with one detail page
\* taken from the dictionary and the others fetched
C8_Witness ==
    /\ call.op = "get_sites_for_state" /\ call.exc = ""
    /\ Len(call.sites) = MaxParks
    /\ call.sites[1] # call.sites[MaxParks]
    /\ Cardinality({j \in 1..Len(trace) : trace[j].e = "GET"}) = MaxParks - 1
    /\ \A j \in 1..Len(trace) : trace[j].e = "GET" => trace[j].key \in DetailUrls

PageUrls == {DirectoryUrl} \cup StateUrls \cup DetailUrls

\* a mapping from the ranks 1..n, all int or all str, to descriptions
IsRankMap(v) ==
    /\ v.shape = "dict"
    /\ \/ \A j \in 1..Len(v.items) : v.items[j].k = IntKey(j)
       \/ \A j \in 1..Len(v.items) : v.items[j].k = StrKey(Digits[j])

\* a mapping from region names (str) to listing URLs
IsRegionMap(v) ==
    /\ v.shape = "dict"
    /\ \A j \in 1..Len(v.items) :
          /\ ~v.items[j].k.int
          /\ \E r \in 1..Len(Regions) : v.items[j].v = BASE_URL \o Regions[r].href

\* C9 (as claimed): the value under a page URL (directory, listing or detail) is
\* a page text, the value under a postal code is a rank mapping.
C9_TwoShapes ==
    \A k \in DOMAIN CACHE_DICT :
        IF k \in PageUrls THEN CACHE_DICT[k].shape = "str" ELSE IsRankMap(CACHE_DICT[k])

\* C9 (amended): the value under a listing or detail URL is a page text, the
\* value under the directory URL is a mapping from region names to listing URLs,
\* the value under a postal code is a rank mapping.
C9_ThreeShapes ==
    \A k \in DOMAIN CACHE_DICT :
        CASE k = DirectoryUrl -> IsRegionMap(CACHE_DICT[k])
          [] k \in StateUrls \cup DetailUrls -> CACHE_DICT[k].shape = "str"
          [] OTHER -> IsRankMap(CACHE_DICT[k])

\* C9: the dictionary holds the three shapes at once
C9_Witness ==
    /\ DirectoryUrl \in DOMAIN CACHE_DICT /\ Len(CACHE_DICT[DirectoryUrl].items) = Len(Regions)
    /\ \E u \in StateUrls \cup DetailUrls : u \in DOMAIN CACHE_DICT
    /\ "49931" \in DOMAIN CACHE_DICT /\ Len(CACHE_DICT["49931"].items) = MaxResults

\* the directory pages that have the container and list items in it
ListedDirectoryPages == {DirectoryPages[m] : m \in 1..Len(Regions)}

\* C10 (as claimed): a build_state_url_dict whose fetched page lacks the HERO
\* container, or list items in it, raises, and nothing is stored under the
\* directory URL in the dictionary or the file.
C10_MalformedDirectoryFatal ==
    (/\ call.op = "build_state_url_dict"
     /\ trace # <<>>
     /\ trace[1].status # 0
     /\ trace[1].text \notin ListedDirectoryPages) =>
        /\ call.exc # ""
        /\ DirectoryUrl \notin DOMAIN CACHE_DICT
        /\ DirectoryUrl \notin DOMAIN file.text

(***************************************************************************)
(* The cache file found damaged at start-up.                               *)
(***************************************************************************)

\* what a run can find where an earlier run saved f: no file, bytes that
\* cache_file.read() cannot decode, a text json.loads rejects (text is then
\* what the file was meant to hold)
DamagedFiles(f) ==
    {NoFile,
     [present |-> TRUE, readable |-> FALSE, valid |-> TRUE, text |-> f.text],
     [present |-> TRUE, readable |-> TRUE, valid |-> FALSE, text |-> f.text]}

\* the program is launched on a file damaged since the last save
StartOnDamagedFile ==
    /\ file.present
    /\ \E damaged \in DamagedFiles(file) :
        /\ file' = damaged
        /\ CACHE_DICT' = open_cache(damaged)
    /\ call' = [op |-> "open_cache", arg |-> "", exc |-> "", value |-> PyNone,
                sites |-> <<>>]
    /\ trace' = <<>>
    /\ UNCHANGED <<main, peer>>

NextDisk ==
    \/ Start
    \/ StartOnDamagedFile
    \/ GetSiteInstance
    \/ GetNearbyPlaces

SpecDisk == Init /\ [][NextDisk]_vars

\* open, read and json.loads all succeed on f
Loadable(f) == f.present /\ f.readable /\ f.valid

\* the keys a trace stored
PutKeys(tr) == {tr[j].key : j \in {i \in 1..Len(tr) : tr[i].e = "PUT"}}

\* C11: a start-up on a cache file that is absent, unreadable or not valid JSON
\* raises nothing and leaves CACHE_DICT empty; the first call that stores
\* something then leaves a file that holds the dumps of the dictionary, which is
\* the keys stored by that call and nothing of what the file held before.
C11_DamagedFileStartsEmpty ==
    [][/\ (call'.op = "open_cache" /\ ~Loadable(file')) =>
              (CACHE_DICT' = EmptyMap /\ call'.exc = "")
       /\ (~Loadable(file) /\ PutKeys(trace') # {}) =>
              /\ Loadable(file')
              /\ file'.text = json_dumps(CACHE_DICT')
              /\ DOMAIN file'.text = PutKeys(trace')]_vars

\* C11: a start-up on a file that is not valid JSON and was meant to hold entries
C11_Witness ==
    /\ call.op = "open_cache"
    /\ file.present /\ file.readable /\ ~file.valid
    /\ DOMAIN file.text # {}
    /\ CACHE_DICT = EmptyMap

\* C12: in the trace of every call each store of a key is directly followed by a
\* save, so no other store and no request comes between the two; and once a call
\* that stored something is over, the file holds the dumps of the whole
\* CACHE_DICT.
C12_StoreThenSave ==
    /\ \A j \in 1..Len(trace) :
          trace[j].e = "PUT" => (j < Len(trace) /\ trace[j + 1].e = "SAVE")
    /\ (call.op \in CacheOps /\ PutKeys(trace) # {}) =>
          (Loadable(file) /\ file.text = json_dumps(CACHE_DICT))

\* C12: a get_sites_for_state that stored the listing page and two detail pages
C12_Witness ==
    /\ call.op = "get_sites_for_state"
    /\ Cardinality(PutKeys(trace)) >= 3
    /\ Cardinality(DOMAIN CACHE_DICT) > Cardinality(PutKeys(trace))

(***************************************************************************)
(* Two processes on one cache file: CACHE_DICT is the dictionary of the    *)
(* first, peer the dictionary of the second.                               *)
(***************************************************************************)

\* the second process is launched: its CACHE_DICT = open_cache()
PeerStart ==
    /\ peer' = open_cache(file)
    /\ call' = [op |-> "open_cache", arg |-> "", exc |-> "", value |-> PyNone,
                sites |-> <<>>]
    /\ trace' = <<>>
    /\ UNCHANGED <<CACHE_DICT, file, main>>

\* get_site_instance in the second process
PeerGetSiteInstance ==
    \E site_url \in DetailUrls :
      \E web \in DetailWebs({site_url} \ DOMAIN peer) :
        LET s == get_site_instance([Enter EXCEPT !.cache = peer], site_url, web)
        IN  /\ peer' = s.cache
            /\ file' = s.file
            /\ trace' = s.trace
            /\ call' = [op |-> "get_site_instance", arg |-> site_url, exc |-> s.exc,
                        value |-> s.value, sites |-> s.sites]
            /\ UNCHANGED <<CACHE_DICT, main>>

NextTwo ==
    \/ Start
    \/ PeerStart
    \/ GetSiteInstance
    \/ PeerGetSiteInstance

SpecTwo == Init /\ [][NextTwo]_vars

\* C13: with two processes on one file the last writer wins: a call that stores a
\* key leaves the file equal to the dumps of its own process's dictionary, so an
\* entry the other process had saved and this process never loaded is no longer
\* in the file.
C13_LastWriterWins ==
    [][PutKeys(trace') # {} =>
          LET writer == IF peer' # peer THEN peer' ELSE CACHE_DICT'
          IN  /\ file'.text = json_dumps(writer)
              /\ \A k \in DOMAIN file.text \ DOMAIN writer : k \notin DOMAIN file'.text]_vars

\* C13: both processes started from the same (empty) file, the first stored one
\* URL and the second then stored another: the file holds the second's entry alone
C13_Witness ==
    \E k1 \in DetailUrls, k2 \in DetailUrls :
        /\ k1 # k2
        /\ DOMAIN CACHE_DICT = {k1}
        /\ DOMAIN peer = {k2}
        /\ file.present /\ DOMAIN file.text = {k2}

\* the directory of the two regions as the program is to return it
RegionMap ==
    << [k |-> StrKey("michigan"), v |-> "https://www.nps.gov/state/mi/index.htm"],
       [k |-> StrKey("ohio"), v |-> "https://www.nps.gov/state/oh/index.htm"] >>

\* C14: a returning build_state_url_dict gives the mapping from the lower-cased
\* region names of the directory page to the origin followed by their hrefs, in
\* page order; on a miss that is the mapping of the page just fetched, on a hit
\* the mapping stored before the call; and the mapping a later run loads from
\* the file is equal to the one returned.
C14_DirectoryMapping ==
    [][(call'.op = "build_state_url_dict" /\ call'.exc = "") =>
          /\ \E m \in 0..Len(Regions) :
                /\ call'.value = PyDict(SubSeq(RegionMap, 1, m))
                /\ trace' # <<>> => trace'[1].text = DirectoryPages[m]
          /\ DirectoryUrl \in DOMAIN CACHE_DICT =>
                (trace' = <<>> /\ call'.value = CACHE_DICT[DirectoryUrl])
          /\ call'.value = CACHE_DICT'[DirectoryUrl]
          /\ call'.value = open_cache(file')[DirectoryUrl]]_vars

\* C14: a hit that returns the mapping of both regions
C14_Witness ==
    /\ call.op = "build_state_url_dict"
    /\ call.exc = ""
    /\ trace = <<>>
    /\ call.value = PyDict(RegionMap)

(***************************************************************************)
(* get_nearby_places on every response of up to MaxResults results.        *)
(***************************************************************************)
NearbyAnyResults ==
    \E site_object \in SiteObjects :
        \E answer \in (IF site_object.zipcode \in DOMAIN CACHE_DICT
                       THEN {Down}
                       ELSE {Response(200, ApiBodyOf(r)) : r \in ResultLists}) :
            Return("get_nearby_places", site_object.zipcode,
                   get_nearby_places(Enter, site_object,
                                     (ApiUrl(site_object.zipcode) :> answer)))

NextPlaces ==
    \/ Start
    \/ NearbyAnyResults

SpecPlaces == Init /\ [][NextPlaces]_vars

\* the descriptions of the four places as the program is to give them
PlaceLines ==
    << "Keweenaw Brewing (Restaurants): 408 Shelden Ave, Houghton",
       "Carnegie Museum (Museums): No Address, Houghton",
       "Portage Lake (Parks): 105 Huron St, No City",
       "Quincy Mine (Museums): No Address, No City" >>

\* C15: a get_nearby_places that received a response with n results returns the
\* mapping whose keys are the integers 1..n in order, rank k holding
\* "{name} ({category}): {street}, {city}" of the k-th result of the response,
\* with "No Address" for an empty street and "No City" for an empty city.
C15_RankedPlaces ==
    \A r \in ResultLists :
        (/\ call.op = "get_nearby_places"
         /\ trace # <<>>
         /\ trace[1].e = "GET"
         /\ trace[1].text = ApiBodyOf(r)) =>
            /\ call.exc = ""
            /\ call.value = PyDict([k \in 1..Len(r) |->
                                     [k |-> IntKey(k), v |-> PlaceLines[r[k]]]])

\* C15: a response of MaxResults results that starts with the place without
\* street and city
C15_Witness ==
    /\ call.op = "get_nearby_places"
    /\ trace # <<>>
    /\ trace[1].status = 200
    /\ \E r \in ResultLists :
          Len(r) = MaxResults /\ r[1] = 4 /\ r[2] = 1 /\ trace[1].text = ApiBodyOf(r)

(***************************************************************************)
(* get_site_instance on every combination of present and absent elements.  *)
(***************************************************************************)
AnySiteInstance ==
    \E f \in SiteMarkups :
        LET site_url == BASE_URL \o ParkPaths[1]
        IN  Return("get_site_instance", site_url,
                   get_site_instance(Enter, site_url,
                                     [u \in DetailUrls |-> Response(200, SitePages[f])]))

NextSites ==
    \/ Start
    \/ AnySiteInstance

SpecSites == Init /\ [][NextSites]_vars

\* the record the program is to build from a page with the elements f
RecordOf(f) ==
    [category |-> IF f.type = <<>> THEN "No Type" ELSE "National Park",
     name |-> IF f.name = <<>> THEN "No Name" ELSE "Isle Royale",
     address |-> (IF f.city = <<>> THEN "No City" ELSE "Houghton") \o ", "
                 \o (IF f.state = <<>> THEN "No State" ELSE "MI"),
     zipcode |-> IF f.zip = <<>> THEN "No Zip" ELSE "49931",
     phone |-> IF f.tel = <<>> THEN "No Number" ELSE "(906) 482-0984"]

\* C16: whichever of the six elements (category, name, phone, postal code, region,
\* city) the page has or lacks, get_site_instance raises nothing and returns the
\* record in which each absent field is its placeholder ("No Type", "No Name",
\* "No Number", "No Zip", "No State", "No City"), each present field its trimmed
\* text, and the address is "{city}, {region}".
C16_PlaceholderPerField ==
    \A f \in SiteMarkups :
        (/\ call.op = "get_site_instance"
         /\ call.arg \in DOMAIN CACHE_DICT
         /\ CACHE_DICT[call.arg] = PyStr(SitePages[f])) =>
            (call.exc = "" /\ call.sites = << RecordOf(f) >>)

\* C16: the page fetched has none of the six elements
C16_Witness ==
    /\ call.op = "get_site_instance"
    /\ trace # <<>>
    /\ trace[1].text = SitePages[NoElements]
    /\ call.sites # <<>>
    /\ call.sites[1].address = "No City, No State"

(***************************************************************************)
(* The command loop of __main__.  main.pc is the prompt the program waits  *)
(* at ("state", "detail"), "done" after the loop and "crashed" after an    *)
(* uncaught exception; typed is the line read last, said the notice        *)
(* printed for it, picked the place in park_list of the record handed to   *)
(* get_nearby_places (0: none).                                            *)
(***************************************************************************)

\* no function called by the handler
NoCall == [op |-> "", arg |-> "", exc |-> "", value |-> PyNone, sites |-> <<>>]

\* the handler printed or moved on without calling a function
Silent ==
    /\ call' = NoCall
    /\ trace' = <<>>
    /\ UNCHANGED <<CACHE_DICT, file>>

\* dict.keys() and dict[key]
DictKeys(d) == {d.items[j].k : j \in 1..Len(d.items)}
DictGet(d, key) == d.items[CHOOSE j \in 1..Len(d.items) : d.items[j].k = key].v

\* the loop entered again whatever num_input holds
LoopTopAlways(num_input) == "state"

\* while True: if num_input == "exit": break
LoopTop(num_input) == IF num_input = StrKey("exit") THEN "done" ELSE "state"

\* the lines typed at the two prompts
StateLines == {"Michigan", "Texas", "exit", "Exit"}
Words == {"exit", "back", "abc"}
Numbers == (0 - MaxParks - 1)..(MaxParks + 1)
IntText(i) == IF i < 0 THEN "-" \o PyStrOfInt(0 - i) ELSE PyStrOfInt(i)
DetailLines == Words \cup {IntText(i) : i \in Numbers}

\* int(num_input): raises ValueError unless the line is a decimal integer
IsInt(line) == \E i \in Numbers : IntText(i) = line
IntOf(line) == CHOOSE i \in Numbers : IntText(i) = line

\* the place (from 1) of list[index], 0 when Python raises IndexError
PyIndex(list, index) ==
    IF index >= 0
    THEN IF index < Len(list) THEN index + 1 ELSE 0
    ELSE IF Len(list) + index >= 0 THEN Len(list) + index + 1 ELSE 0

\* CACHE_DICT = open_cache(); dict = build_state_url_dict(); num_input = ""
MainStart ==
    /\ main.pc = "off"
    /\ LET loaded == open_cache(file)
       IN  \E first \in (IF DirectoryUrl \in DOMAIN loaded THEN {Down}
                         ELSE Responses(DirectoryUrl)),
              second \in (IF DirectoryUrl \in DOMAIN loaded THEN {Down}
                          ELSE Responses(DirectoryUrl)) :
             LET s == build_state_url_dict([Enter EXCEPT !.cache = loaded], first, second)
             IN  /\ Effects("build_state_url_dict", DirectoryUrl, s)
                 /\ main' = IF s.exc # ""
                            THEN [main EXCEPT !.pc = "crashed"]
                            ELSE [main EXCEPT !.pc = LoopTop(StrKey("")),
                                              !.dict = s.value,
                                              !.num_input = StrKey("")]
    /\ UNCHANGED peer

\* a line read at "Enter a state name ...", handled up to the next prompt
StateInput ==
    /\ main.pc = "state"
    /\ \E line \in StateLines :
        LET user_input == Lower(line)
            read == [main EXCEPT !.typed = line, !.picked = 0, !.said = ""]
        IN  IF user_input = "exit"
            THEN /\ Silent
                 /\ main' = [read EXCEPT !.pc = "done", !.said = "Bye!"]
            ELSE IF StrKey(user_input) \in DictKeys(main.dict)
            THEN LET state_url == DictGet(main.dict, StrKey(user_input))
                 IN  \E web \in DetailWebs(Missing(DetailUrls)),
                        listing \in Answers(state_url, state_url) :
                       LET s == get_sites_for_state(Enter, state_url,
                                                    (state_url :> listing) @@ web)
                       IN  /\ Effects("get_sites_for_state", state_url, s)
                           /\ main' =
                                IF s.exc = "ValueError"
                                THEN [read EXCEPT !.pc = "done", !.said = "Invalid Input!"]
                                ELSE IF s.exc # ""
                                THEN [read EXCEPT !.pc = "crashed"]
                                ELSE [read EXCEPT !.pc = "detail",
                                                  !.park_list = s.sites,
                                                  !.counter = Len(s.sites) + 1]
            ELSE /\ Silent
                 /\ main' = [read EXCEPT !.pc = LoopTop(main.num_input),
                                         !.said = "[Error] Enter proper state name"]
    /\ UNCHANGED peer

\* a line read at "Choose the number for detail search ...", handled up to the
\* next prompt
DetailInput ==
    /\ main.pc = "detail"
    /\ \E line \in DetailLines :
        LET read == [main EXCEPT !.typed = line, !.picked = 0, !.said = ""]
        IN  IF IsInt(line)
            THEN LET num_input == IntOf(line)
                     int == [read EXCEPT !.num_input = IntKey(num_input)]
                     place == PyIndex(main.park_list, num_input - 1)
                 IN  IF num_input < main.counter
                     THEN IF place = 0
                          THEN /\ Silent
                               /\ main' = [int EXCEPT !.pc = "crashed"]
                          ELSE LET site == main.park_list[place]
                               IN  \E answer \in Answers(site.zipcode, ApiUrl(site.zipcode)) :
                                     LET s == get_nearby_places(Enter, site,
                                                 (ApiUrl(site.zipcode) :> answer))
                                     IN  /\ Effects("get_nearby_places", site.zipcode, s)
                                         /\ main' =
                                              IF s.exc = "ValueError"
                                              THEN [int EXCEPT !.picked = place,
                                                        !.said = "[Error] Invalid Input"]
                                              ELSE IF s.exc # ""
                                              THEN [int EXCEPT !.picked = place,
                                                               !.pc = "crashed"]
                                              ELSE [int EXCEPT !.picked = place]
                     ELSE /\ Silent
                          /\ main' = [int EXCEPT !.said = "[Error] Invalid Input"]
            ELSE LET str == [read EXCEPT !.num_input = StrKey(line)]
                 IN  /\ Silent
                     /\ main' = IF line = "exit"
                                THEN [str EXCEPT !.said = "Bye!",
                                                 !.pc = LoopTop(StrKey(line))]
                                ELSE IF line = "back"
                                THEN [str EXCEPT !.pc = LoopTop(StrKey(line))]
                                ELSE [str EXCEPT !.said = "[Error] Invalid Input"]
    /\ UNCHANGED peer

NextMain ==
    \/ MainStart
    \/ StateInput
    \/ DetailInput

SpecMain == Init /\ [][NextMain]_vars

\* C17 (as claimed): at the detail prompt of a list of N records an integer k with
\* 1 <= k <= N hands exactly the k-th record to get_nearby_places; every other
\* integer (0, negative, above N) is answered with "[Error] Invalid Input" and
\* nothing else: no record picked, no request, no store, and the prompt is shown
\* again.
C17_OnlyListedNumbers ==
    [][(main.pc = "detail" /\ IsInt(main'.typed)) =>
          LET k == IntOf(main'.typed)
              N == Len(main.park_list)
          IN  IF 1 <= k /\ k <= N
              THEN /\ main'.picked = k
                   /\ call'.op = "get_nearby_places"
                   /\ call'.arg = main.park_list[k].zipcode
              ELSE /\ main'.said = "[Error] Invalid Input"
                   /\ main'.picked = 0
                   /\ trace' = <<>>
                   /\ CACHE_DICT' = CACHE_DICT
                   /\ file' = file
                   /\ main'.pc = "detail"]_vars

\* C18: "exit" typed at either prompt ends the program within its handler, with
\* no request and no store, and nothing runs after the end (no step leaves
\* "done"); "back" typed at the detail prompt leads to the state-name prompt,
\* also without request or store.
C18_ExitEndsBackReturns ==
    [][/\ main.pc # "done"
       /\ (main.pc \in {"state", "detail"} /\ main'.typed = "exit") =>
             /\ main'.pc = "done"
             /\ trace' = <<>>
             /\ UNCHANGED <<CACHE_DICT, file>>
       /\ (main.pc = "detail" /\ main'.typed = "back") =>
             /\ main'.pc = "state"
             /\ trace' = <<>>
             /\ UNCHANGED <<CACHE_DICT, file>>]_vars

\* C18: the program over after "exit" typed at the detail prompt
C18_Witness ==
    /\ main.pc = "done"
    /\ main.typed = "exit"
    /\ main.num_input = StrKey("exit")
    /\ main.park_list # <<>>

\* the listing page of state_url is stored with its list of headings
Listed(cache, state_url) ==
    /\ state_url \in DOMAIN cache
    /\ \E n \in 0..MaxParks : cache[state_url] = PyStr(ListingPages[n])

\* the detail URLs of the stored listing page of state_url, in page order
LinkedUrls(cache, state_url) ==
    [j \in 1..Headings(cache[state_url].text) |-> BASE_URL \o ParkPaths[j]]

\* everything a get_sites_for_state(state_url) reads is stored, which is the case
\* once a call for state_url has returned
Complete(cache, state_url) ==
    /\ Listed(cache, state_url)
    /\ \A j \in 1..Len(LinkedUrls(cache, state_url)) :
          LinkedUrls(cache, state_url)[j] \in DOMAIN cache

\* the list of records that the stored pages of state_url give
ListOf(cache, state_url) ==
    [j \in 1..Len(LinkedUrls(cache, state_url)) |->
        SiteOfText(cache[LinkedUrls(cache, state_url)[j]].text)]

\* C19: a get_sites_for_state that returns leaves the listing page and every
\* page it links stored, and its list is the list those pages give; from then on
\* every step, a restart from the file included, keeps them stored with the same
\* list, and every later get_sites_for_state for that listing requests nothing,
\* stores nothing, raises nothing and returns that same list.
C19_RepeatFromCache ==
    [][\A state_url \in StateUrls :
          /\ (call'.op = "get_sites_for_state" /\ call'.arg = state_url /\ call'.exc = "") =>
                /\ Complete(CACHE_DICT', state_url)
                /\ call'.sites = ListOf(CACHE_DICT', state_url)
          /\ Complete(CACHE_DICT, state_url) =>
                /\ Complete(CACHE_DICT', state_url)
                /\ ListOf(CACHE_DICT', state_url) = ListOf(CACHE_DICT, state_url)
                /\ (call'.op = "get_sites_for_state" /\ call'.arg = state_url) =>
                      /\ trace' = <<>>
                      /\ call'.exc = ""
                      /\ call'.sites = ListOf(CACHE_DICT, state_url)
                      /\ CACHE_DICT' = CACHE_DICT
                      /\ file' = file]_vars

\* C19: a call answered from the dictionary alone in a run that loaded the file
\* (the ranks of the stored nearby places are strings)
C19_Witness ==
    /\ call.op = "get_sites_for_state"
    /\ call.exc = ""
    /\ trace = <<>>
    /\ Len(call.sites) = MaxParks
    /\ "49931" \in DOMAIN CACHE_DICT
    /\ CACHE_DICT["49931"].items # <<>>
    /\ ~CACHE_DICT["49931"].items[1].k.int

\* the call c with trace tr is a get_sites_for_state that raised because the
\* request of the k-th detail page raised
AbortedAt(c, tr, k) ==
    /\ c.op = "get_sites_for_state"
    /\ c.exc = "ConnectionError"
    /\ tr # <<>>
    /\ tr[Len(tr)].e = "GET"
    /\ tr[Len(tr)].status = 0
    /\ tr[Len(tr)].key = BASE_URL \o ParkPaths[k]

\* url is stored as a page in the dictionary and in the file
Persisted(cache, f, url) ==
    /\ url \in DOMAIN cache
    /\ Loadable(f)
    /\ url \in DOMAIN f.text
    /\ f.text[url] = JsonString(cache[url].text)

\* C20: when get_sites_for_state raises because the request of the k-th detail
\* page raised, the listing page and the first k-1 detail pages are in the
\* dictionary and in the file and the k-th URL is in neither; a call for the same
\* listing right after starts with the request of the k-th detail page and
\* requests no page before the k-th.
C20_AbortKeepsFetched ==
    [][\A k \in 1..MaxParks :
          /\ AbortedAt(call', trace', k) =>
                /\ Persisted(CACHE_DICT', file', call'.arg)
                /\ \A j \in 1..(k - 1) :
                      Persisted(CACHE_DICT', file', BASE_URL \o ParkPaths[j])
                /\ BASE_URL \o ParkPaths[k] \notin DOMAIN CACHE_DICT'
                /\ BASE_URL \o ParkPaths[k] \notin DOMAIN file'.text
          /\ (/\ AbortedAt(call, trace, k)
              /\ call'.op = "get_sites_for_state"
              /\ call'.arg = call.arg) =>
                /\ trace' # <<>>
                /\ trace'[1].e = "GET"
                /\ trace'[1].key = BASE_URL \o ParkPaths[k]
                /\ \A i \in 1..Len(trace') :
                      trace'[i].e = "GET" =>
                          \E j \in k..MaxParks : trace'[i].key = BASE_URL \o ParkPaths[j]]_vars

\* C20: a call that fetched the listing page and the first detail page and
\* raised on the request of the second
C20_Witness ==
    /\ AbortedAt(call, trace, 2)
    /\ Puts(trace, call.arg) = 1
    /\ Puts(trace, BASE_URL \o ParkPaths[1]) = 1

====
